---- MODULE Spec2Model ----
(***************************************************************************)
(* Purview glossary management: the PurviewGlossaryManager client of       *)
(* src/purview_glossary/glossary.py, run by a single-threaded caller       *)
(* against a catalog service.  The catalog (its terms and its governance   *)
(* domains) is the external state; every HTTP request is one step whose    *)
(* response (status, body shape) is chosen by the service.                 *)
(*                                                                         *)
(* A term record carries name and domain only: description and status are  *)
(* copied verbatim into the payload and never read by any branch.          *)
(***************************************************************************)
EXTENDS Integers, Sequences, FiniteSets, TLC

VARIABLES
    catalog,      \* the terms of the catalog, in the order GET /terms lists them
    domainItems,  \* the governance domains of the catalog
    pc,           \* where the caller is: idle, before a request, or done
    op,           \* the method of PurviewGlossaryManager being run
    terms,        \* the records handed to upload_glossary_terms / create_term
    i,            \* index of the loop of upload_glossary_terms / delete_all_glossary_term
    all_terms,    \* the local all_terms: the terms snapshot
    all_domains,  \* the local all_domains: the domains snapshot
    sel,          \* the arguments term_id, term_name
    reqs,         \* the requests the running call has sent, with their status
    outs,         \* per loop item, how the running call left it
    result,       \* what the call returned or raised
    cat0,         \* the catalog when the running call began
    prev          \* summary of the preceding upload run with the same input

vars == <<catalog, domainItems, pc, op, terms, i, all_terms, all_domains,
          sel, reqs, outs, result, cat0, prev>>

\* ------------------------------------------------------------------ bounds
\* longest input record list handed to upload_glossary_terms
MaxRecords == 3
\* most terms the catalog holds at once
MaxTerms == 2

\* ------------------------------------------------------------------ values
Names == {"Revenue", "Cost"}
DomainNames == {"Finance", "Sales"}
IdPool == <<"t1", "t2", "t3", "t4", "t5", "t6">>
TermIds == {IdPool[k] : k \in 1..MaxTerms}

\* Python's None, as a selector value
None == "<None>"
\* the values get_term's two selectors are called with
IdSelectors == {None, "", "t1"}
NameSelectors == {None, "", "Revenue"}

\* the governance domains of the catalog, as GET /businessdomains lists them
DomainLists ==
    { << [name |-> "Finance", id |-> "dom1"], [name |-> "Sales", id |-> "dom2"] >>,
      << [name |-> "Finance", id |-> "dom1"] >>,
      << [name |-> "Finance", id |-> "dom1"], [name |-> "Sales", id |-> "dom1"] >> }

\* the records an input list is made of
Records == [name : Names, domain : DomainNames] \ {[name |-> "Cost", domain |-> "Sales"]}
RecordLists == UNION { [1..n -> Records] : n \in 0..MaxRecords }

\* ------------------------------------------------------------ HTTP responses
\* a response: its status, whether its body parses as JSON, and whether the
\* parsed body has the key "value"
Resp(status, json, hasValue) == [status |-> status, json |-> json, hasValue |-> hasValue]

ErrorResponses(status) == { Resp(status, TRUE, FALSE), Resp(status, FALSE, FALSE) }

ListResponses == {Resp(200, TRUE, TRUE), Resp(403, TRUE, FALSE)} \cup ErrorResponses(500)
ItemResponses == {Resp(200, TRUE, FALSE), Resp(403, TRUE, FALSE)} \cup ErrorResponses(404)
PostResponses == {Resp(201, TRUE, FALSE), Resp(403, TRUE, FALSE)} \cup ErrorResponses(500)
DeleteStatuses == {204, 403, 500}

\* ------------------------------------------------------- results of a call
NoBody == [hasValue |-> FALSE, value |-> << >>]
Ok(body, code) == [raised |-> FALSE, err |-> "", body |-> body, code |-> code]
Raise(e) == [raised |-> TRUE, err |-> e, body |-> NoBody, code |-> 0]
Pending == Ok(NoBody, 0)

\* Python truthiness of a selector
Truthy(v) == v # None /\ v # ""

EmptyDict == [n \in {} |-> ""]
NoPrev == [ran |-> FALSE, clean |-> FALSE, created |-> {}]

Req(kind, idx, name, dom, tid, status) ==
    [kind |-> kind, idx |-> idx, name |-> name, dom |-> dom, tid |-> tid,
     status |-> status]

\* -------------------------------------------------------- get_all_glossary_terms
\* glossary.py 35-40: 403 raises, every other response is parsed and returned
get_all_glossary_terms_swallow(resp, cat) ==
    IF resp.status = 403 THEN Ok([hasValue |-> TRUE, value |-> << >>], 0)
    ELSE IF ~resp.json THEN Raise("JSONDecodeError")
    ELSE Ok([hasValue |-> resp.hasValue,
             value |-> IF resp.hasValue THEN cat ELSE << >>], 0)

get_all_glossary_terms(resp, cat) ==
    IF resp.status = 403 THEN Raise("PermissionError")
    ELSE IF ~resp.json THEN Raise("JSONDecodeError")
    ELSE Ok([hasValue |-> resp.hasValue,
             value |-> IF resp.hasValue THEN cat ELSE << >>], 0)

\* r["value"] on a returned body
Subscript(r) ==
    IF r.raised THEN r
    ELSE IF ~r.body.hasValue THEN Raise("KeyError")
    ELSE r

\* ---------------------------------------------------------------- get_all_domains
\* the dict the loop of glossary.py 50-51 builds: a later item of the same
\* name overwrites an earlier one
DictOf(items) ==
    [n \in {items[k].name : k \in DOMAIN items} |->
        LET last == CHOOSE k \in DOMAIN items :
                       /\ items[k].name = n
                       /\ \A m \in DOMAIN items : items[m].name = n => m <= k
        IN items[last].id]

\* glossary.py 46-52: [raised, err, dict]
get_all_domains(resp, items) ==
    IF resp.status >= 400 THEN [raised |-> TRUE, err |-> "PermissionError", dict |-> EmptyDict]
    ELSE IF ~resp.json THEN [raised |-> TRUE, err |-> "JSONDecodeError", dict |-> EmptyDict]
    ELSE IF ~resp.hasValue THEN [raised |-> TRUE, err |-> "KeyError", dict |-> EmptyDict]
    ELSE [raised |-> FALSE, err |-> "", dict |-> DictOf(items)]

\* --------------------------------------------------------------- check_term_exists
\* glossary.py 129-135, from item k on: "True", "False", or "KeyError" when
\* all_domains[domain] is evaluated for a missing key.  `and` short-circuits:
\* the dict is read only for an item whose name matches.
RECURSIVE scan_terms(_, _, _, _, _)
scan_terms(name, domain, terms_, domains_, k) ==
    IF k > Len(terms_) THEN "False"
    ELSE IF terms_[k].name = name
         THEN IF domain \notin DOMAIN domains_ THEN "KeyError"
              ELSE IF terms_[k].domain = domains_[domain] THEN "True"
              ELSE scan_terms(name, domain, terms_, domains_, k + 1)
         ELSE scan_terms(name, domain, terms_, domains_, k + 1)

\* a variant that compares the term's domain id with the domain NAME
check_term_exists_by_name(name, domain, terms_, domains_) ==
    IF \E k \in DOMAIN terms_ : terms_[k].name = name /\ terms_[k].domain = domain
    THEN "True" ELSE "False"

check_term_exists(name, domain, terms_, domains_) ==
    scan_terms(name, domain, terms_, domains_, 1)

\* ------------------------------------------------------------------ create paths
Plan(kind, err, dom) == [kind |-> kind, err |-> err, dom |-> dom]

\* a variant that resolves the domain with dict.get and skips when it is None
create_plan_lenient(name, domain, terms_, domains_) ==
    IF domain \notin DOMAIN domains_ THEN Plan("skip", "", "")
    ELSE LET e == check_term_exists(name, domain, terms_, domains_) IN
         IF e = "True" THEN Plan("skip", "", "")
         ELSE Plan("post", "", domains_[domain])

\* __create_term, glossary.py 189-199: what happens up to the request
__create_term(name, domain, terms_, domains_) ==
    LET e == check_term_exists(name, domain, terms_, domains_) IN
    IF e = "KeyError" THEN Plan("raise", "KeyError", "")
    ELSE IF e = "True" THEN Plan("skip", "", "")
    ELSE IF domain \notin DOMAIN domains_ THEN Plan("raise", "KeyError", "")
    ELSE Plan("post", "", domains_[domain])

\* create_term, glossary.py 227-237: the same steps on fresh snapshots
create_term(name, domain, terms_, domains_) ==
    LET e == check_term_exists(name, domain, terms_, domains_) IN
    IF e = "KeyError" THEN Plan("raise", "KeyError", "")
    ELSE IF e = "True" THEN Plan("skip", "", "")
    ELSE IF domain \notin DOMAIN domains_ THEN Plan("raise", "KeyError", "")
    ELSE Plan("post", "", domains_[domain])

\* a variant that only logs a 403
post_outcome_logs_403(resp) ==
    IF ~resp.json /\ resp.status # 403 THEN "JSONDecodeError" ELSE ""

\* glossary.py 201-207 and 239-245: the error the response of the POST raises
post_outcome(resp) ==
    IF resp.status = 403 THEN "PermissionError"
    ELSE IF ~resp.json THEN "JSONDecodeError"
    ELSE ""

\* ------------------------------------------------------------------ delete
\* a variant that raises on 403, as the create paths do
delete_glossary_term_raising(status) ==
    IF status = 403 THEN Raise("PermissionError") ELSE Ok(NoBody, status)

\* glossary.py 257-264: the status code is the return value
delete_glossary_term(status) == Ok(NoBody, status)

\* ------------------------------------------------------------------ get_term
\* a variant that tests the selectors against None
get_term_route_is_none(term_id, term_name) ==
    IF term_id # None /\ term_name # None THEN "both"
    ELSE IF term_id # None THEN "by_id"
    ELSE IF term_name # None THEN "by_name"
    ELSE "neither"

\* glossary.py 79/83/94/105: the branch get_term takes
get_term_route(term_id, term_name) ==
    IF Truthy(term_id) /\ Truthy(term_name) THEN "both"
    ELSE IF Truthy(term_id) THEN "by_id"
    ELSE IF Truthy(term_name) THEN "by_name"
    ELSE "neither"

\* a variant that returns the parsed body whatever the status
get_term_by_id_unchecked(resp) ==
    IF ~resp.json THEN Raise("JSONDecodeError") ELSE Ok(NoBody, 0)

\* glossary.py 86-91: fetch by id
get_term_by_id(resp) ==
    IF resp.status = 403 THEN Raise("PermissionError")
    ELSE IF ~resp.json THEN Raise("JSONDecodeError")
    ELSE Ok(NoBody, 0)

\* glossary.py 97: the terms of the list with exactly this name
Matches(list, term_name) == SelectSeq(list, LAMBDA t : t.name = term_name)

\* ------------------------------------------------------------------ the catalog
UsedIds(cat) == {cat[k].id : k \in DOMAIN cat}
FreeId(cat) == IdPool[CHOOSE n \in 1..MaxTerms :
                        /\ IdPool[n] \notin UsedIds(cat)
                        /\ \A m \in 1..(n - 1) : IdPool[m] \in UsedIds(cat)]
\* POST /terms answered 201 stores the term
Stored(cat, name, dom) == Append(cat, [id |-> FreeId(cat), name |-> name, domain |-> dom])
\* DELETE /terms/{id} answered 204 removes it
Removed(cat, tid) == SelectSeq(cat, LAMBDA t : t.id # tid)

\* ------------------------------------------------------------------ the caller
NoSel == [id |-> None, name |-> None]

Init ==
    /\ catalog = << >>
    /\ domainItems \in DomainLists
    /\ pc = "idle"
    /\ op = ""
    /\ terms = << >>
    /\ i = 1
    /\ all_terms = << >>
    /\ all_domains = EmptyDict
    /\ sel = NoSel
    /\ reqs = << >>
    /\ outs = << >>
    /\ result = Pending
    /\ cat0 = << >>
    /\ prev = NoPrev

\* a call begins: fresh locals, nothing sent yet
Begin(o, ts, s, p) ==
    /\ op' = o
    /\ terms' = ts
    /\ sel' = s
    /\ pc' = p
    /\ i' = 1
    /\ all_terms' = << >>
    /\ all_domains' = EmptyDict
    /\ reqs' = << >>
    /\ outs' = << >>
    /\ result' = Pending
    /\ cat0' = catalog
    /\ UNCHANGED <<catalog, domainItems>>

Finish(r) ==
    /\ pc' = "done"
    /\ result' = r

\* the loop moves to its next item, or the call returns None
Advance(n) ==
    IF i < n
    THEN /\ i' = i + 1
         /\ UNCHANGED <<pc, result>>
    ELSE /\ Finish(Ok(NoBody, 0))
         /\ UNCHANGED i

\* main.py 32: upload_glossary_terms(terms)
CallUpload ==
    /\ pc = "idle"
    /\ \E ts \in RecordLists : Begin("upload", ts, NoSel, "list_terms")
    /\ prev' = NoPrev

CallCreateTerm ==
    /\ pc = "idle"
    /\ \E r \in Records : Begin("create_term", <<r>>, NoSel, "list_terms")
    /\ prev' = NoPrev

CallListTerms ==
    /\ pc = "idle"
    /\ Begin("get_all_glossary_terms", << >>, NoSel, "list_terms")
    /\ prev' = NoPrev

CallDeleteAll ==
    /\ pc = "idle"
    /\ Begin("delete_all", << >>, NoSel, "list_terms")
    /\ prev' = NoPrev

CallDeleteTerm ==
    /\ pc = "idle"
    /\ \E tid \in TermIds :
          Begin("delete_glossary_term", << >>, [id |-> tid, name |-> None], "delete_one")
    /\ prev' = NoPrev

\* get_term, glossary.py 78-106, up to its first request
CallGetTerm ==
    /\ pc = "idle"
    /\ \E tid \in IdSelectors, tname \in NameSelectors :
          LET route == get_term_route(tid, tname)
              s == [id |-> tid, name |-> tname]
          IN  CASE route = "both" ->
                     /\ Begin("get_term", << >>, s, "done")
                     /\ result' = Raise("UsageError")
                [] route = "neither" ->
                     /\ Begin("get_term", << >>, s, "done")
                     /\ result' = Raise("UsageError")
                [] route = "by_id" -> Begin("get_term", << >>, s, "get_by_id")
                [] OTHER -> Begin("get_term", << >>, s, "list_terms")
    /\ prev' = NoPrev

\* ------------------------------------------------------------------ the steps
Locals == <<op, terms, sel, cat0, prev, domainItems>>

\* GET /terms, sent by get_all_glossary_terms (glossary.py 35), and what its
\* caller does with the answer
ListTerms ==
    /\ pc = "list_terms"
    /\ \E resp \in ListResponses :
          LET got == get_all_glossary_terms(resp, catalog)
              val == Subscript(got)
          IN  /\ reqs' = Append(reqs, Req("GET /terms", 0, "", "", "", resp.status))
              /\ CASE op = "get_all_glossary_terms" ->
                        /\ Finish(got)
                        /\ UNCHANGED <<all_terms, i>>
                   [] op \in {"upload", "create_term"} ->
                        \* glossary.py 159, 225
                        IF val.raised
                        THEN /\ Finish(val)
                             /\ UNCHANGED <<all_terms, i>>
                        ELSE /\ all_terms' = val.body.value
                             /\ pc' = "list_domains"
                             /\ UNCHANGED <<result, i>>
                   [] op = "get_term" ->
                        \* glossary.py 96-102
                        /\ IF val.raised THEN Finish(val)
                           ELSE IF Matches(val.body.value, sel.name) # << >>
                           THEN Finish(Ok([hasValue |-> TRUE,
                                           value |-> Matches(val.body.value, sel.name)], 0))
                           ELSE Finish(Raise("NotFound"))
                        /\ UNCHANGED <<all_terms, i>>
                   [] OTHER ->
                        \* delete_all_glossary_term, glossary.py 282-285
                        IF val.raised
                        THEN /\ Finish(val)
                             /\ UNCHANGED <<all_terms, i>>
                        ELSE /\ all_terms' = val.body.value
                             /\ IF val.body.value = << >>
                                THEN Finish(Ok(NoBody, 0))
                                ELSE pc' = "del_loop" /\ UNCHANGED result
                             /\ UNCHANGED i
    /\ UNCHANGED <<catalog, all_domains, outs>>
    /\ UNCHANGED Locals

\* GET /businessdomains, sent by get_all_domains (glossary.py 46) for
\* upload_glossary_terms (160) and create_term (226)
ListDomains ==
    /\ pc = "list_domains"
    /\ \E resp \in ListResponses :
          LET got == get_all_domains(resp, domainItems)
          IN  /\ reqs' = Append(reqs, Req("GET /businessdomains", 0, "", "", "", resp.status))
              /\ IF got.raised
                 THEN /\ Finish(Raise(got.err))
                      /\ UNCHANGED all_domains
                 ELSE /\ all_domains' = got.dict
                      /\ IF terms = << >>
                         THEN Finish(Ok(NoBody, 0))
                         ELSE pc' = "create" /\ UNCHANGED result
    /\ UNCHANGED <<catalog, all_terms, outs, i>>
    /\ UNCHANGED Locals

\* one record of the loop of upload_glossary_terms (glossary.py 163-168), or
\* the one record of create_term (227-245)
Create ==
    /\ pc = "create"
    /\ LET rec == terms[i]
           plan == IF op = "upload"
                   THEN __create_term(rec.name, rec.domain, all_terms, all_domains)
                   ELSE create_term(rec.name, rec.domain, all_terms, all_domains)
       IN  CASE plan.kind = "raise" ->
                  /\ outs' = Append(outs, plan.err)
                  /\ Finish(Raise(plan.err))
                  /\ UNCHANGED <<catalog, reqs, i>>
             [] plan.kind = "skip" ->
                  /\ outs' = Append(outs, "skipped")
                  /\ Advance(Len(terms))
                  /\ UNCHANGED <<catalog, reqs>>
             [] OTHER ->
                  \E resp \in PostResponses :
                     /\ resp.status = 201 => Len(catalog) < MaxTerms
                     /\ reqs' = Append(reqs, Req("POST /terms", i, rec.name, plan.dom, "",
                                                 resp.status))
                     /\ catalog' = IF resp.status = 201
                                   THEN Stored(catalog, rec.name, plan.dom)
                                   ELSE catalog
                     /\ IF post_outcome(resp) # ""
                        THEN /\ outs' = Append(outs, post_outcome(resp))
                             /\ Finish(Raise(post_outcome(resp)))
                             /\ UNCHANGED i
                        ELSE /\ outs' = Append(outs, "created")
                             /\ Advance(Len(terms))
    /\ UNCHANGED <<all_terms, all_domains>>
    /\ UNCHANGED Locals

\* GET /terms/{id}, glossary.py 84-91
GetById ==
    /\ pc = "get_by_id"
    /\ \E resp \in ItemResponses :
          /\ reqs' = Append(reqs, Req("GET /terms/id", 0, "", "", sel.id, resp.status))
          /\ Finish(get_term_by_id(resp))
    /\ UNCHANGED <<catalog, all_terms, all_domains, outs, i>>
    /\ UNCHANGED Locals

\* one term of the loop of delete_all_glossary_term (glossary.py 285-292)
DeleteNext ==
    /\ pc = "del_loop"
    /\ \E status \in DeleteStatuses :
          LET t == all_terms[i]
              r == delete_glossary_term(status)
          IN  /\ status = 204 => t.id \in UsedIds(catalog)
              /\ reqs' = Append(reqs, Req("DELETE /terms/id", i, t.name, "", t.id, status))
              /\ catalog' = IF status = 204 THEN Removed(catalog, t.id) ELSE catalog
              /\ IF r.raised
                 THEN /\ outs' = Append(outs, r.err)
                      /\ Finish(r)
                      /\ UNCHANGED i
                 ELSE /\ outs' = Append(outs, IF r.code = 204 THEN "deleted" ELSE "not deleted")
                      /\ Advance(Len(all_terms))
    /\ UNCHANGED <<all_terms, all_domains>>
    /\ UNCHANGED Locals

\* delete_glossary_term called on its own (glossary.py 257-264)
DeleteOne ==
    /\ pc = "delete_one"
    /\ \E status \in DeleteStatuses :
          /\ status = 204 => sel.id \in UsedIds(catalog)
          /\ reqs' = Append(reqs, Req("DELETE /terms/id", 0, "", "", sel.id, status))
          /\ catalog' = IF status = 204 THEN Removed(catalog, sel.id) ELSE catalog
          /\ Finish(delete_glossary_term(status))
    /\ UNCHANGED <<all_terms, all_domains, outs, i>>
    /\ UNCHANGED Locals

\* requests of a kind, and the record indices of the POSTs answered 201
Sent(kind) == SelectSeq(reqs, LAMBDA q : q.kind = kind)
CreatedIdx == {reqs[k].idx : k \in {m \in DOMAIN reqs :
                                      reqs[m].kind = "POST /terms" /\ reqs[m].status = 201}}

\* the caller runs upload_glossary_terms again with the same records, nothing
\* else touching the catalog in between
Rerun ==
    /\ pc = "done"
    /\ op = "upload"
    /\ ~prev.ran
    /\ Begin("upload", terms, NoSel, "list_terms")
    /\ prev' = [ran |-> TRUE,
                clean |-> /\ ~result.raised
                          /\ \A k \in DOMAIN reqs :
                                reqs[k].kind = "POST /terms" => reqs[k].status = 201,
                created |-> CreatedIdx]

\* the call is over; the caller is free to make another
Return ==
    /\ pc = "done"
    /\ pc' = "idle"
    /\ op' = ""
    /\ terms' = << >>
    /\ sel' = NoSel
    /\ i' = 1
    /\ all_terms' = << >>
    /\ all_domains' = EmptyDict
    /\ reqs' = << >>
    /\ outs' = << >>
    /\ result' = Pending
    /\ cat0' = << >>
    /\ prev' = NoPrev
    /\ UNCHANGED <<catalog, domainItems>>

Next ==
    \/ CallUpload
    \/ CallCreateTerm
    \/ CallListTerms
    \/ CallDeleteAll
    \/ CallDeleteTerm
    \/ CallGetTerm
    \/ ListTerms
    \/ ListDomains
    \/ Create
    \/ GetById
    \/ DeleteNext
    \/ DeleteOne
    \/ Rerun
    \/ Return

Spec == Init /\ [][Next]_vars

\* ------------------------------------------------------------------ properties
Posts == Sent("POST /terms")
Deletes == Sent("DELETE /terms/id")

\* some term of snapshot ts has this name and the id that dict ds maps the
\* domain name to
InSnapshot(rec, ts, ds) ==
    /\ rec.domain \in DOMAIN ds
    /\ \E k \in DOMAIN ts : ts[k].name = rec.name /\ ts[k].domain = ds[rec.domain]

NoDuplicatePairs(cat) ==
    \A k, m \in DOMAIN cat :
       (cat[k].name = cat[m].name /\ cat[k].domain = cat[m].domain) => k = m

NoRepeatedRecord(ts) == \A k, m \in DOMAIN ts : ts[k] = ts[m] => k = m

Creating == op \in {"upload", "create_term"}

\* C1: in upload_glossary_terms and create_term, every POST /terms is for a
\* record whose (name, resolved domain id) is in no term of the terms snapshot,
\* and carries that name and that id; a record that is in the snapshot is
\* skipped, with no request for it and no error.
C1_CreateOnlyIfAbsent ==
    Creating =>
       /\ \A k \in DOMAIN reqs :
             reqs[k].kind = "POST /terms" =>
                LET rec == terms[reqs[k].idx]
                IN  /\ rec.domain \in DOMAIN all_domains
                    /\ reqs[k].name = rec.name
                    /\ reqs[k].dom = all_domains[rec.domain]
                    /\ ~InSnapshot(rec, all_terms, all_domains)
       /\ \A j \in DOMAIN outs :
             InSnapshot(terms[j], all_terms, all_domains) =>
                /\ outs[j] = "skipped"
                /\ \A k \in DOMAIN reqs : reqs[k].idx # j
                /\ (j = Len(outs) => ~result.raised)

\* a batch run that skipped one record as existing and posted another
C1_Witness ==
    /\ op = "upload"
    /\ \E j \in DOMAIN outs : outs[j] = "skipped" /\ InSnapshot(terms[j], all_terms, all_domains)
    /\ Posts # << >>

\* C2 as claimed: a run of upload_glossary_terms that began on a catalog
\* without duplicate (name, domain id) pairs never leaves the catalog with two
\* terms of the same pair, whatever the input list.
C2_NoDuplicatesCreated ==
    (op = "upload" /\ NoDuplicatePairs(cat0)) => NoDuplicatePairs(catalog)

\* how often record rec was created by the run before (idx set a) and by
\* this run (idx set b)
TimesCreated(rec, a, b) ==
    Cardinality({j \in a : terms[j] = rec}) + Cardinality({j \in b : terms[j] = rec})

Supplied(v) == v # None

\* C4 as claimed: get_term with both selectors supplied, or neither, sends no
\* request and ends with the usage error, whatever the values.
C4_SelectorExclusivity ==
    (/\ op = "get_term"
     /\ Supplied(sel.id) <=> Supplied(sel.name)) =>
       /\ reqs = << >>
       /\ pc = "done" => result = Raise("UsageError")

\* C5: in both create paths a record whose domain name is no key of the
\* domains mapping ends the call with a lookup error and gets no POST, for
\* every terms snapshot; it is not skipped.
C5_UnresolvedDomainFails ==
    Creating =>
       /\ \A j \in DOMAIN outs :
             terms[j].domain \notin DOMAIN all_domains =>
                /\ outs[j] = "KeyError"
                /\ j = Len(outs)
                /\ pc = "done"
                /\ result = Raise("KeyError")
                /\ \A k \in DOMAIN reqs : reqs[k].idx # j
       /\ pc = "create" =>
             \A rec \in Records :
                rec.domain \notin DOMAIN all_domains =>
                   /\ __create_term(rec.name, rec.domain, all_terms, all_domains).kind = "raise"
                   /\ create_term(rec.name, rec.domain, all_terms, all_domains).kind = "raise"

\* a record with an unresolved domain met a snapshot holding a term of its name
C5_Witness ==
    /\ Creating
    /\ pc = "done"
    /\ outs # << >>
    /\ outs[Len(outs)] = "KeyError"
    /\ terms[Len(outs)].domain \notin DOMAIN all_domains
    /\ \E k \in DOMAIN all_terms : all_terms[k].name = terms[Len(outs)].name

\* C6 as claimed: check_term_exists raises the lookup error whenever the
\* domain name is missing from the domains snapshot, for every terms snapshot;
\* it never answers False for such a name.
C6_ExistsRaisesOnUnresolved ==
    (Creating /\ pc = "create" /\ terms[i].domain \notin DOMAIN all_domains) =>
       check_term_exists(terms[i].name, terms[i].domain, all_terms, all_domains) = "KeyError"

\* C7 as claimed: get_all_glossary_terms raises for every non-success status,
\* the permission error on 403.
C7_ListTermsRaisesOnFailure ==
    (op = "get_all_glossary_terms" /\ pc = "done") =>
       /\ reqs[1].status = 403 => result = Raise("PermissionError")
       /\ reqs[1].status # 200 => result.raised

\* C8: in upload_glossary_terms the GET /terms and the GET /businessdomains
\* come first, in that order; a 403 on the first or a status >= 400 on the
\* second ends the run with an error, and no POST follows either.
C8_SnapshotsBeforeCreates ==
    op = "upload" =>
       /\ \A k \in DOMAIN reqs :
             /\ k = 1 <=> reqs[k].kind = "GET /terms"
             /\ k = 2 <=> reqs[k].kind = "GET /businessdomains"
             /\ reqs[k].kind = "POST /terms" =>
                   /\ k >= 3
                   /\ reqs[1].status # 403
                   /\ reqs[2].status < 400
       /\ (Len(reqs) >= 1 /\ reqs[1].status = 403) =>
             pc = "done" /\ result.raised /\ Len(reqs) = 1
       /\ (Len(reqs) >= 2 /\ reqs[2].status >= 400) =>
             pc = "done" /\ result.raised /\ Len(reqs) = 2

\* a batch with records to create stopped at the forbidden term list
C8_Witness ==
    /\ op = "upload"
    /\ terms # << >>
    /\ \A j \in DOMAIN terms : ~InSnapshot(terms[j], catalog, DictOf(domainItems))
    /\ pc = "done"
    /\ Len(reqs) = 1
    /\ reqs[1].status = 403
    /\ result = Raise("PermissionError")

\* C9: upload_glossary_terms sends its POSTs in input order; a POST answered
\* 403 is the last request of the run, which ends with the permission error;
\* the terms stored by the earlier POSTs are still in the catalog.
C9_ForbiddenCreateHalts ==
    op = "upload" =>
       /\ \A k, m \in DOMAIN reqs :
             (k < m /\ reqs[k].kind = "POST /terms" /\ reqs[m].kind = "POST /terms")
                => reqs[k].idx < reqs[m].idx
       /\ \A k \in DOMAIN reqs :
             (reqs[k].kind = "POST /terms" /\ reqs[k].status = 403) =>
                /\ k = Len(reqs)
                /\ pc = "done"
                /\ result = Raise("PermissionError")
                /\ Len(outs) = reqs[k].idx
       /\ \A k \in DOMAIN reqs :
             (reqs[k].kind = "POST /terms" /\ reqs[k].status = 201) =>
                \E t \in DOMAIN catalog :
                   catalog[t].name = reqs[k].name /\ catalog[t].domain = reqs[k].dom
       /\ reqs # << >> => Len(catalog) = Len(cat0) + Cardinality(CreatedIdx)

\* a record was created, the next one was forbidden, and a later one is left
C9_Witness ==
    /\ op = "upload"
    /\ pc = "done"
    /\ result = Raise("PermissionError")
    /\ Len(Posts) = 2
    /\ Posts[1].status = 201
    /\ Posts[2].status = 403
    /\ Len(outs) < Len(terms)

\* C10: delete_all_glossary_term sends exactly one DELETE per listed term, in
\* list order, whatever the earlier DELETEs answered, and returns without
\* raising; delete_glossary_term returns the status, also a 403.
C10_DeleteAllBestEffort ==
    /\ (op = "delete_all" /\ pc \in {"del_loop", "done"} /\ ~result.raised) =>
          /\ \A j \in DOMAIN Deletes :
                /\ j <= Len(all_terms)
                /\ Deletes[j].tid = all_terms[j].id
          /\ pc = "del_loop" => Len(Deletes) = i - 1
          /\ pc = "done" => Len(Deletes) = Len(all_terms)
    /\ (op = "delete_all" /\ pc = "done" /\ result.raised) => Len(reqs) = 1
    /\ (op = "delete_glossary_term" /\ pc = "done") =>
          /\ ~result.raised
          /\ Len(reqs) = 1
          /\ result.code = reqs[1].status

\* a delete-all whose first DELETE was forbidden and whose second succeeded
C10_Witness ==
    /\ op = "delete_all"
    /\ pc = "done"
    /\ ~result.raised
    /\ Len(Deletes) >= 2
    /\ Deletes[1].status = 403
    /\ Deletes[2].status = 204

====
